---- MODULE Spec2Model ----
(***************************************************************************)
(* Model of the mkdocs-coverage plugin (src/mkdocs_coverage/plugin.py).    *)
(*                                                                         *)
(* One build is modelled: on_files (the page synthesizer, possibly called  *)
(* again on the same collection), the host rendering the pages to the site *)
(* directory, and on_post_build (the report merger), statement by          *)
(* statement.                                                              *)
(*                                                                         *)
(* Text is a sequence of tokens.  A path is a sequence of names, a name is *)
(* a record [stem, suffix] ("index.html" is [stem |-> "index", suffix |->  *)
(* ".html"]); paths of the site are relative to config.site_dir, paths of  *)
(* the report are relative to config.html_report_dir.                      *)
(***************************************************************************)
EXTENDS Naturals, Sequences, FiniteSets, TLC

VARIABLES
    config,         \* the plugin's options and the two MkDocsConfig values it reads
    files,          \* the host's Files collection, in insertion order
    page_path,      \* self.page_path
    calls,          \* number of on_files calls so far
    found,          \* the entry on_files found at <page_path>.md in its latest call, if any
    before,         \* the collection as it was when the latest on_files call began
    site,           \* the tree under config.site_dir: [files, dirs]
    site_before,    \* the tree under config.site_dir as on_post_build found it
    report,         \* the tree at config.html_report_dir: [exists, files, dirs]
    pc,             \* position in the build
    rendered,       \* what the host rendered for the synthesized page
    todo,           \* html files on_post_build's loop has still to visit
    warnings,       \* number of log.warning calls
    outcome         \* "running", "returned" or the exception on_post_build raised

vars == <<config, files, page_path, calls, found, before, site, site_before,
          report, pc,
          rendered, todo, warnings, outcome>>

\* An optional value is a sequence of length 0 (None) or 1.
None == <<>>

Some(x) == <<x>>

-----------------------------------------------------------------------------
(* Bounds *)

\* longest user page text, in tokens
MaxLen == 4
\* most on_files calls on one collection
MaxCalls == 2
\* most items (links, fragments) in a report page
MaxItems == 2

-----------------------------------------------------------------------------
(* Names and paths *)

N(stem, suffix) == [stem |-> stem, suffix |-> suffix]

Front(s) == SubSeq(s, 1, Len(s) - 1)

Last(s) == s[Len(s)]

\* str + ".md" on a path whose last name has no suffix yet
AddExt(p, ext) == Front(p) \o <<N(Last(p).stem, ext)>>

\* pathlib's Path.with_suffix
WithSuffix(p, ext) == Front(p) \o <<N(Last(p).stem, ext)>>

IsPrefix(d, p) == Len(d) <= Len(p) /\ SubSeq(p, 1, Len(d)) = d

\* every proper ancestor directory of p, the root <<>> excluded
Parents(p) == {SubSeq(p, 1, k) : k \in 1..(Len(p) - 1)}

IndexHtml == N("index", ".html")

CovindexHtml == N("covindex", ".html")

-----------------------------------------------------------------------------
(* Text *)

\* str.replace(old, new, 1): the first occurrence only
ReplaceFirst(s, old, new) ==
    LET occ == {i \in 1..(Len(s) + 1) :
                   i + Len(old) - 1 <= Len(s) /\ SubSeq(s, i, i + Len(old) - 1) = old}
    IN  IF occ = {} THEN s
        ELSE LET i == CHOOSE k \in occ : \A j \in occ : k <= j
             IN  SubSeq(s, 1, i - 1) \o new \o SubSeq(s, i + Len(old), Len(s))

RECURSIVE Replace(_, _, _)
\* str.replace(old, new): every non-overlapping occurrence, left to right
Replace(s, old, new) ==
    IF old = <<>>
    THEN IF s = <<>> THEN new
         ELSE new \o <<s[1]>> \o Replace(Tail(s), old, new)
    ELSE IF Len(s) < Len(old) THEN s
    ELSE IF SubSeq(s, 1, Len(old)) = old
         THEN new \o Replace(SubSeq(s, Len(old) + 1, Len(s)), old, new)
         ELSE <<s[1]>> \o Replace(Tail(s), old, new)

\* str.__contains__
Contains(s, sub) ==
    \E i \in 1..(Len(s) + 1) :
        i + Len(sub) - 1 <= Len(s) /\ SubSeq(s, i, i + Len(sub) - 1) = sub

IframeOpen == "\n<iframe id=coviframe src="

IframeClose == " onload=resizeIframe();>\n</iframe>\n"

ScriptBlock == "\n<script>...coviframe...</script>\n"

StyleBlock == "\n<style>article h1, article > a, .md-sidebar--secondary {display: none !important;}</style>\n"

Separator == "\n\n"

RECURSIVE PathStr(_)
\* a path as the string its names joined by "/" make
PathStr(p) ==
    IF p = <<>> THEN ""
    ELSE IF Len(p) = 1 THEN p[1].stem \o p[1].suffix
    ELSE p[1].stem \o p[1].suffix \o "/" \o PathStr(Tail(p))

\* the iframe block with src="{covindex}"
Iframe(covindex) == <<IframeOpen>> \o <<covindex>> \o <<IframeClose>>

Script == <<ScriptBlock>>

Style == <<StyleBlock>>

\* _build_coverage_page without its placeholder branch
_build_always_append(cfg, covindex, page_content) ==
    LET coverage_page_content == Iframe(covindex) \o Script
    IN  IF page_content = None \/ page_content[1] = <<>>
        THEN Style \o coverage_page_content
        ELSE page_content[1] \o <<Separator>> \o coverage_page_content

\* _build_coverage_page with the style block left to a hide flag, off unless set
_build_style_on_request(cfg, covindex, page_content) ==
    LET coverage_page_content == Iframe(covindex) \o Script
        style == IF cfg.hide_page_title = <<TRUE>> THEN Style ELSE <<>>
    IN  IF page_content = None \/ page_content[1] = <<>>
        THEN style \o coverage_page_content
        ELSE IF Contains(page_content[1], cfg.coverage_inplace_placeholder)
             THEN Replace(page_content[1], cfg.coverage_inplace_placeholder,
                          coverage_page_content)
             ELSE page_content[1] \o <<Separator>> \o coverage_page_content

_build_coverage_page(cfg, covindex, page_content) ==
    LET coverage_page_content == Iframe(covindex) \o Script
    IN  IF page_content = None \/ page_content[1] = <<>>
        THEN Style \o coverage_page_content
        ELSE IF Contains(page_content[1], cfg.coverage_inplace_placeholder)
             THEN Replace(page_content[1], cfg.coverage_inplace_placeholder,
                          coverage_page_content)
             ELSE page_content[1] \o <<Separator>> \o coverage_page_content

-----------------------------------------------------------------------------
(* The host's Files collection: a sequence of entries                      *)
(* [src_uri, content, generated] in insertion order                        *)

get_file_from_path(fs, uri) ==
    LET m == {i \in 1..Len(fs) : fs[i].src_uri = uri}
    IN  IF m = {} THEN None ELSE Some(fs[CHOOSE i \in m : \A j \in m : i <= j])

\* file.src_uri in files
InFiles(fs, uri) == \E i \in 1..Len(fs) : fs[i].src_uri = uri

\* files.remove(file): removal by source path
FilesRemove(fs, uri) ==
    LET Keep(e) == e.src_uri # uri
    IN  SelectSeq(fs, Keep)

\* files.append(file)
FilesAppend(fs, file) == Append(fs, file)

\* File.generated(config, src_uri, content)
FileGenerated(uri, content) ==
    [src_uri |-> uri, content |-> content, generated |-> TRUE]

\* line 55: the deprecated page_name wins over page_path when it is set
EffectivePagePath(cfg) ==
    IF cfg.page_name = None THEN cfg.page_path ELSE cfg.page_name[1]

\* line 56
Covindex(cfg, pp) ==
    IF cfg.use_directory_urls THEN "covindex.html"
    ELSE PathStr(pp) \o "/covindex.html"

\* lines 62-64 without the removal
AppendEntry(fs, file) == FilesAppend(fs, file)

\* lines 62-64
ReplaceEntry(fs, file) ==
    FilesAppend(IF InFiles(fs, file.src_uri) THEN FilesRemove(fs, file.src_uri)
                ELSE fs,
                file)

\* the collection on_files returns
SynthesizedFiles(cfg, fs) ==
    LET pp == EffectivePagePath(cfg)
        original_coverage_file == get_file_from_path(fs, AddExt(pp, ".md"))
        original_coverage_file_content ==
            IF original_coverage_file # None
            THEN Some(original_coverage_file[1].content)
            ELSE None
        page_content == _build_coverage_page(cfg, Covindex(cfg, pp),
                                             original_coverage_file_content)
    IN  ReplaceEntry(fs, FileGenerated(AddExt(pp, ".md"), page_content))

-----------------------------------------------------------------------------
(* File trees: [files |-> function from path to text, dirs |-> set of      *)
(* paths]; the root <<>> is always a directory                             *)

IsFile(fs, p) == p \in DOMAIN fs.files

IsDir(fs, p) == p = <<>> \/ p \in fs.dirs

Exists(fs, p) == IsFile(fs, p) \/ IsDir(fs, p)

\* the function f without the paths in gone
Without(f, gone) == [p \in (DOMAIN f) \ gone |-> f[p]]

WriteFile(fs, p, text) ==
    [files |-> (p :> text) @@ fs.files, dirs |-> fs.dirs \cup Parents(p)]

\* os.rmdir in place of shutil.rmtree: only an empty directory goes
RmDirIfEmpty(fs, d) ==
    IF ~IsDir(fs, d) \/ (\E p \in (DOMAIN fs.files) \cup fs.dirs :
                            p # d /\ IsPrefix(d, p))
    THEN fs
    ELSE [files |-> fs.files, dirs |-> fs.dirs \ {d}]

\* shutil.rmtree(d, ignore_errors=True)
RmTree(fs, d) ==
    IF ~IsDir(fs, d) THEN fs
    ELSE [files |-> Without(fs.files, {p \in DOMAIN fs.files : IsPrefix(d, p)}),
          dirs  |-> {p \in fs.dirs : ~IsPrefix(d, p)}]

\* shutil.copytree(src, dst) of an existing src onto an absent dst
CopyTree(rep, fs, dst) ==
    [files |-> [p \in {dst \o r : r \in DOMAIN rep.files}
                    |-> rep.files[SubSeq(p, Len(dst) + 1, Len(p))]] @@ fs.files,
     dirs  |-> fs.dirs \cup Parents(dst) \cup {dst} \cup {dst \o r : r \in rep.dirs}]

NoError == "ok"

\* shutil.move(src, dst) of a file: [err, fs]
Move(fs, src, dst) ==
    LET real_dst == IF IsDir(fs, dst) THEN dst \o <<Last(src)>> ELSE dst
    IN  IF IsDir(fs, dst) /\ Exists(fs, real_dst)
        THEN [err |-> "shutil.Error", fs |-> fs]
        ELSE IF ~IsFile(fs, src)
        THEN [err |-> "FileNotFoundError", fs |-> fs]
        ELSE IF ~IsDir(fs, Front(real_dst))
        THEN [err |-> "FileNotFoundError", fs |-> fs]
        ELSE [err |-> NoError,
              fs  |-> [files |-> (real_dst :> fs.files[src])
                                    @@ Without(fs.files, {src}),
                       dirs  |-> fs.dirs]]

\* tokens of the report pages
H == "href=\""

I == "index.html"

Q == "\""

C == "cov"

\* re.sub with count=1
ReSubFirst(text) == ReplaceFirst(text, <<H, I, Q>>, <<H, C, I, Q>>)

\* re.sub(r'href="index\.html"', 'href="covindex.html"', text)
ReSub(text) == Replace(text, <<H, I, Q>>, <<H, C, I, Q>>)

\* line 137
coverage_dir == page_path

\* line 138
tmp_index == <<N(".coverage-tmp", ".html")>>

\* lines 140-143 and 154-157: where the host renders the synthesized page
Canonical(cfg, pp) ==
    IF cfg.use_directory_urls THEN pp \o <<IndexHtml>> ELSE WithSuffix(pp, ".html")

\* the host's rendering of a page's markup
Render(markup) == <<"<article>">> \o markup \o <<"</article>">>

-----------------------------------------------------------------------------
(* Inputs *)

RECURSIVE SeqsUpTo(_, _)
\* the sequences over S of length at most n
SeqsUpTo(S, n) ==
    IF n = 0 THEN {<<>>}
    ELSE LET shorter == SeqsUpTo(S, n - 1)
         IN  shorter \cup {Append(t, x) : t \in shorter, x \in S}

RECURSIVE Flatten(_)
Flatten(ss) == IF ss = <<>> THEN <<>> ELSE ss[1] \o Flatten(Tail(ss))

\* user page texts
UserTexts == SeqsUpTo({"{", "}"}, MaxLen)

\* coverage_inplace_placeholder values: one that cannot overlap itself, one that can
Placeholders == {<<"{", "}">>, <<"{", "{">>}

\* report page texts: links to the report root and unterminated fragments of one
HtmlTexts == {Flatten(ss) : ss \in SeqsUpTo({<<H, I, Q>>, <<H, I>>}, MaxItems)}

Coverage == <<N("coverage", "")>>

DevCoverage == <<N("dev", ""), N("coverage", "")>>

\* (page_name, page_path) settings
PageSettings ==
    { [page_name |-> None, page_path |-> Coverage],
      [page_name |-> None, page_path |-> DevCoverage],
      [page_name |-> Some(<<N("cov", "")>>), page_path |-> Coverage] }

\* The options as written in mkdocs.yml.  hide_page_title is what the user may
\* write there: MkDocsCoverageConfig declares no such option and nothing reads it.
Configs(placeholders, hides) ==
    { [page_name |-> ps.page_name, page_path |-> ps.page_path,
       html_report_dir |-> "htmlcov",
       coverage_inplace_placeholder |-> ph,
       hide_page_title |-> hide,
       use_directory_urls |-> udu] :
        ps \in PageSettings, ph \in placeholders, hide \in hides, udu \in BOOLEAN }

DiskFile(uri, content) ==
    [src_uri |-> uri, content |-> content, generated |-> FALSE]

IndexMd == DiskFile(<<N("index", ".md")>>, <<"# Home">>)

AboutMd == DiskFile(<<N("about", ".md")>>, <<"# About">>)

\* the collections the host hands to on_files: with or without a user page
Collections(cfg, texts) ==
    {<<IndexMd, AboutMd>>} \cup
    { <<DiskFile(AddExt(EffectivePagePath(cfg), ".md"), t), IndexMd, AboutMd>> :
        t \in texts }

StyleCss == N("style", ".css")

OtherHtml == N("other", ".html")

SubIndex == <<N("sub", ""), IndexHtml>>

\* a function from the paths whose text is given (None: no such file)
Tree(index, other, extras) ==
    LET present == (IF index # None THEN {<<IndexHtml>>} ELSE {})
                   \cup (IF other # None THEN {<<OtherHtml>>} ELSE {})
                   \cup (IF extras THEN {<<StyleCss>>, SubIndex} ELSE {})
    IN  [p \in present |->
            IF p = <<IndexHtml>> THEN index[1]
            ELSE IF p = <<OtherHtml>> THEN other[1]
            ELSE <<H, I, Q>>]

MissingReport == [exists |-> FALSE, files |-> <<>>, dirs |-> {}]

\* the report directories: the root page, one more page, a stylesheet and a
\* page in a subdirectory
Reports(texts) ==
    {MissingReport} \cup
    { [exists |-> TRUE, files |-> Tree(index, other, extras),
       dirs |-> IF extras THEN {<<N("sub", "")>>} ELSE {}] :
        index \in {None} \cup {Some(t) : t \in texts},
        other \in {None} \cup {Some(t) : t \in texts},
        extras \in BOOLEAN }

\* the report of the specification's example, with a second page linking to the root
StandardReport ==
    [exists |-> TRUE, files |-> Tree(Some(<<H, I, Q>>), Some(<<H, I, Q>>), TRUE),
     dirs |-> {<<N("sub", "")>>}]

HomePage == <<"<article>", "# Home", "</article>">>

\* the site directory before the pages are rendered: clean, or holding what an
\* earlier build left at the page path
Sites(pp) ==
    { [files |-> (<<IndexHtml>> :> HomePage), dirs |-> {}],
      [files |-> (<<IndexHtml>> :> HomePage)
                 @@ (pp \o <<N("old", ".html")>> :> <<H, I, Q>>)
                 @@ (pp \o <<CovindexHtml>> :> <<"old report">>)
                 @@ (tmp_index :> <<"old page">>),
       dirs |-> Parents(pp) \cup {pp}] }

-----------------------------------------------------------------------------
(* The build *)

\* Every user text and placeholder with two reports, or every report with two
\* user pages.
Init ==
    /\ \/ /\ config \in Configs(Placeholders, {None, Some(TRUE), Some(FALSE)})
          /\ files \in Collections(config, UserTexts)
          /\ report \in {MissingReport, StandardReport}
          /\ site \in Sites(EffectivePagePath(config))
       \/ /\ config \in Configs({<<"{", "}">>}, {None})
          /\ files \in Collections(config, {<<"{", "}">>})
          /\ report \in Reports(HtmlTexts)
          /\ site \in Sites(EffectivePagePath(config))
    /\ site_before = site
    /\ page_path = <<>>
    /\ calls = 0
    /\ found = None
    /\ before = <<>>
    /\ pc = "on_files"
    /\ rendered = None
    /\ todo = {}
    /\ warnings = 0
    /\ outcome = "running"

\* lines 55-65
on_files ==
    /\ pc = "on_files"
    /\ calls < MaxCalls
    /\ page_path' = EffectivePagePath(config)
    /\ found' = get_file_from_path(files, AddExt(EffectivePagePath(config), ".md"))
    /\ before' = files
    /\ files' = SynthesizedFiles(config, files)
    /\ calls' = calls + 1
    /\ UNCHANGED <<site_before, config, site, report, pc, rendered, todo, warnings, outcome>>

\* the host renders the collection's pages into the site directory
HostBuild ==
    /\ pc = "on_files"
    /\ calls >= 1
    /\ LET page == get_file_from_path(files, AddExt(page_path, ".md"))[1]
       IN  /\ site' = WriteFile(site, Canonical(config, page_path),
                                Render(page.content))
           /\ site_before' = WriteFile(site, Canonical(config, page_path),
                                       Render(page.content))
           /\ rendered' = Some(Render(page.content))
    /\ pc' = "move_out"
    /\ UNCHANGED <<config, files, page_path, calls, found, before, report, todo,
                   warnings, outcome>>

Raise(err) ==
    /\ outcome' = err
    /\ pc' = "done"

\* on_post_build without lines 140-143
MoveOutSkipped ==
    /\ pc = "move_out"
    /\ pc' = "rmtree"
    /\ UNCHANGED <<site_before, config, files, page_path, calls, found, before,
                   site, report, rendered, todo, warnings, outcome>>

\* lines 140-143
MoveOut ==
    /\ pc = "move_out"
    /\ LET m == Move(site, Canonical(config, page_path), tmp_index)
       IN  IF m.err = NoError
           THEN site' = m.fs /\ pc' = "rmtree" /\ UNCHANGED outcome
           ELSE Raise(m.err) /\ UNCHANGED site
    /\ UNCHANGED <<site_before, config, files, page_path, calls, found, before, report,
                   rendered, todo, warnings>>

\* line 145
RemoveTree ==
    /\ pc = "rmtree"
    /\ site' = RmTree(site, coverage_dir)
    /\ pc' = "copytree"
    /\ UNCHANGED <<site_before, config, files, page_path, calls, found, before, report,
                   rendered, todo, warnings, outcome>>

\* lines 146-150 with shutil.move in place of shutil.copytree
MoveReport ==
    /\ pc = "copytree"
    /\ IF report.exists
       THEN /\ site' = CopyTree(report, site, coverage_dir)
            /\ report' = [exists |-> FALSE, files |-> <<>>, dirs |-> {}]
            /\ pc' = "rename"
            /\ UNCHANGED <<warnings, outcome>>
       ELSE /\ warnings' = warnings + 1
            /\ outcome' = "returned"
            /\ pc' = "done"
            /\ UNCHANGED <<site, report>>
    /\ UNCHANGED <<site_before, config, files, page_path, calls, found, before,
                   rendered, todo>>

\* lines 146-150
CopyReport ==
    /\ pc = "copytree"
    /\ IF report.exists
       THEN /\ site' = CopyTree(report, site, coverage_dir)
            /\ pc' = "rename"
            /\ UNCHANGED <<warnings, outcome>>
       ELSE /\ warnings' = warnings + 1
            /\ outcome' = "returned"
            /\ pc' = "done"
            /\ UNCHANGED site
    /\ UNCHANGED <<site_before, config, files, page_path, calls, found, before, report,
                   rendered, todo>>

\* on_post_build without line 152
RenameIndexSkipped ==
    /\ pc = "rename"
    /\ pc' = "move_back"
    /\ UNCHANGED <<site_before, config, files, page_path, calls, found, before, site, report,
                   rendered, todo, warnings, outcome>>

\* line 152 moved inside the try block of lines 146-150
RenameIndexInTry ==
    /\ pc = "rename"
    /\ LET m == Move(site, coverage_dir \o <<IndexHtml>>,
                     coverage_dir \o <<CovindexHtml>>)
       IN  IF m.err = NoError
           THEN site' = m.fs /\ pc' = "move_back" /\ UNCHANGED <<outcome, warnings>>
           ELSE /\ warnings' = warnings + 1
                /\ outcome' = "returned"
                /\ pc' = "done"
                /\ UNCHANGED site
    /\ UNCHANGED <<site_before, config, files, page_path, calls, found, before, report,
                   rendered, todo>>

\* line 152
RenameIndex ==
    /\ pc = "rename"
    /\ LET m == Move(site, coverage_dir \o <<IndexHtml>>,
                     coverage_dir \o <<CovindexHtml>>)
       IN  IF m.err = NoError
           THEN site' = m.fs /\ pc' = "move_back" /\ UNCHANGED outcome
           ELSE Raise(m.err) /\ UNCHANGED site
    /\ UNCHANGED <<site_before, config, files, page_path, calls, found, before, report,
                   rendered, todo, warnings>>

\* lines 154-157
MoveBack ==
    /\ pc = "move_back"
    /\ LET m == Move(site, tmp_index, Canonical(config, page_path))
       IN  IF m.err = NoError
           THEN site' = m.fs /\ pc' = "iterdir" /\ UNCHANGED outcome
           ELSE Raise(m.err) /\ UNCHANGED site
    /\ UNCHANGED <<site_before, config, files, page_path, calls, found, before, report,
                   rendered, todo, warnings>>

\* line 160 without the suffix test, over a recursive listing
AllEntriesBelow(fs, d) ==
    {p \in DOMAIN fs.files : IsPrefix(d, p) /\ Last(p) # IndexHtml}

\* line 160: the entries of coverage_dir the loop rewrites
HtmlEntries(fs, d) ==
    {p \in (DOMAIN fs.files) \cup fs.dirs :
        /\ Len(p) = Len(d) + 1
        /\ IsPrefix(d, p)
        /\ Last(p).suffix = ".html"
        /\ Last(p) # IndexHtml}

\* line 159: coverage_dir.iterdir()
ListDir ==
    /\ pc = "iterdir"
    /\ todo' = HtmlEntries(site, coverage_dir)
    /\ pc' = "rewrite"
    /\ UNCHANGED <<site_before, config, files, page_path, calls, found, before, site, report,
                   rendered, warnings, outcome>>

\* lines 160-161: one turn of the loop, in whatever order iterdir lists
RewriteOne ==
    /\ pc = "rewrite"
    /\ \E p \in todo :
        /\ todo' = todo \ {p}
        /\ IF IsFile(site, p)
           THEN /\ site' = WriteFile(site, p, ReSub(site.files[p]))
                /\ UNCHANGED <<pc, outcome>>
           ELSE Raise("IsADirectoryError") /\ UNCHANGED site
    /\ UNCHANGED <<site_before, config, files, page_path, calls, found, before, report,
                   rendered, warnings>>

\* the loop is exhausted: on_post_build returns
Return ==
    /\ pc = "rewrite"
    /\ todo = {}
    /\ outcome' = "returned"
    /\ pc' = "done"
    /\ UNCHANGED <<site_before, config, files, page_path, calls, found, before, site, report,
                   rendered, todo, warnings>>

Next ==
    \/ on_files
    \/ HostBuild
    \/ MoveOut
    \/ RemoveTree
    \/ CopyReport
    \/ RenameIndex
    \/ MoveBack
    \/ ListDir
    \/ RewriteOne
    \/ Return

Spec == Init /\ [][Next]_vars

\* the host builds the site without rendering the synthesized page (the entry
\* was dropped from the collection after on_files), then calls on_post_build
HostBuildWithoutPage ==
    /\ pc = "on_files"
    /\ calls >= 1
    /\ pc' = "move_out"
    /\ UNCHANGED <<site_before, config, files, page_path, calls, found, before,
                   site, report, rendered, todo, warnings, outcome>>

NextUnrendered == Next \/ HostBuildWithoutPage

\* the build, with a host that may leave the synthesized page unrendered
SpecUnrendered == Init /\ [][NextUnrendered]_vars

-----------------------------------------------------------------------------
(* Vocabulary of the properties *)

\* on_post_build ran through all its steps
Success == pc = "done" /\ outcome = "returned" /\ warnings = 0

\* on_post_build is over and found no report directory
MissingDone == pc = "done" /\ ~report.exists

\* the files of the site lying in directory d or below it
Under(d) == {p \in DOMAIN site.files : IsPrefix(d, p)}

\* the html files directly inside coverage_dir, the canonical index.html excepted
SiblingPages ==
    {p \in DOMAIN site.files :
        /\ Len(p) = Len(coverage_dir) + 1
        /\ IsPrefix(coverage_dir, p)
        /\ Last(p).suffix = ".html"
        /\ ~(config.use_directory_urls /\ p = coverage_dir \o <<IndexHtml>>)}

\* the report file a file of coverage_dir was copied from
Origin(p) ==
    IF p = coverage_dir \o <<CovindexHtml>> THEN <<IndexHtml>>
    ELSE SubSeq(p, Len(coverage_dir) + 1, Len(p))

\* a link to the report root starts at token i of s
LinkAt(s, i) == i + 2 <= Len(s) /\ s[i] = H /\ s[i + 1] = I /\ s[i + 2] = Q

\* s with every link to index.html made a link to covindex.html, token by token
Relinked(s) ==
    Flatten([i \in 1..Len(s) |-> IF LinkAt(s, i) THEN <<H, C>> ELSE <<s[i]>>])

\* the entry at <page_path>.md after the latest on_files call
Entry == get_file_from_path(files, AddExt(page_path, ".md"))[1]

Markup == Entry.content

Placeholder == config.coverage_inplace_placeholder

\* the frame+script block on_files inserts
Block ==
    <<IframeOpen,
      IF config.use_directory_urls THEN "covindex.html"
      ELSE PathStr(page_path) \o "/covindex.html",
      IframeClose, ScriptBlock>>

\* on_files ran and found a page the user wrote at <page_path>.md
UserPage == calls >= 1 /\ found # None /\ ~found[1].generated

\* on_files ran and found no entry at <page_path>.md
NoUserPage == calls >= 1 /\ found = None

\* the places where tok occurs in s
Occurrences(s, tok) ==
    {i \in 1..Len(s) : i + Len(tok) - 1 <= Len(s)
                       /\ SubSeq(s, i, i + Len(tok) - 1) = tok}

NonOverlapping(occ, n) == \A i, j \in occ : i < j => i + n <= j

\* how many inline frames a text holds
Frames(s) == Cardinality({i \in 1..Len(s) : s[i] = IframeOpen})

HasStyle(s) == \E i \in 1..Len(s) : s[i] = StyleBlock

-----------------------------------------------------------------------------
(* Properties *)

\* C1 as stated: after a successful merge the canonical slot holds the rendered
\* synthesized page and not the report's root page, covindex.html holds the
\* content of the report's original index.html, and in non-directory style
\* there is no index.html in coverage_dir; the report merged had an index.html.
C1_CovindexHoldsOriginal ==
    Success =>
        /\ IsFile(report, <<IndexHtml>>)
        /\ IsFile(site, Canonical(config, page_path))
        /\ site.files[Canonical(config, page_path)] = rendered[1]
        /\ site.files[Canonical(config, page_path)] # report.files[<<IndexHtml>>]
        /\ IsFile(site, coverage_dir \o <<CovindexHtml>>)
        /\ site.files[coverage_dir \o <<CovindexHtml>>] = report.files[<<IndexHtml>>]
        /\ (~config.use_directory_urls => ~Exists(site, coverage_dir \o <<IndexHtml>>))

\* C1 amended: as C1, but covindex.html holds the report's original index.html
\* with its links href="index.html" rewritten to href="covindex.html" (the same
\* text when the root page has no such link).
C1_MergeResult ==
    Success =>
        /\ IsFile(report, <<IndexHtml>>)
        /\ IsFile(site, Canonical(config, page_path))
        /\ site.files[Canonical(config, page_path)] = rendered[1]
        /\ site.files[Canonical(config, page_path)] # report.files[<<IndexHtml>>]
        /\ IsFile(site, coverage_dir \o <<CovindexHtml>>)
        /\ site.files[coverage_dir \o <<CovindexHtml>>]
               = Relinked(report.files[<<IndexHtml>>])
        /\ (Occurrences(report.files[<<IndexHtml>>], <<H, I, Q>>) = {}
               => site.files[coverage_dir \o <<CovindexHtml>>]
                      = report.files[<<IndexHtml>>])
        /\ (~config.use_directory_urls => ~Exists(site, coverage_dir \o <<IndexHtml>>))

\* a successful merge in each URL style, of a report whose root page links to itself
C1_Witness ==
    /\ Success
    /\ ~config.use_directory_urls
    /\ Len(page_path) = 2
    /\ Occurrences(report.files[<<IndexHtml>>], <<H, I, Q>>) # {}

\* C2: after a successful merge every html file directly inside coverage_dir
\* other than the canonical index.html, covindex.html included, is its source
\* with every href="index.html" replaced by href="covindex.html" and nothing
\* else changed, and holds no href="index.html" any more.
C2_LinksRewritten ==
    Success =>
        \A p \in SiblingPages :
            /\ site.files[p] = Relinked(report.files[Origin(p)])
            /\ Occurrences(site.files[p], <<H, I, Q>>) = {}

\* a merged report page that held two links to the root, beside an unterminated one
C2_Witness ==
    /\ Success
    /\ \E p \in SiblingPages :
        /\ Last(p) = OtherHtml
        /\ Cardinality(Occurrences(report.files[Origin(p)], <<H, I, Q>>)) = 2
    /\ \E p \in SiblingPages :
        /\ Last(p) = CovindexHtml
        /\ report.files[Origin(p)] = <<H, I, H, I, Q>>

\* C3: with no report directory, on_post_build warns exactly once, returns
\* without raising and leaves coverage_dir absent: no file of the previous
\* subtree and no file of a report is under it.
C3_MissingReportLeavesNothing ==
    MissingDone =>
        /\ warnings = 1
        /\ outcome = "returned"
        /\ ~Exists(site, coverage_dir)
        /\ Under(coverage_dir) = {}

\* the missing-report return of a directory-URL build, whose coverage_dir existed
C3_Witness ==
    /\ MissingDone
    /\ config.use_directory_urls
    /\ warnings = 1

\* C4: with no report directory, the rendered synthesized page is at its
\* canonical slot after on_post_build returns, and not stranded at the
\* temporary holding path.
C4_PageStillPublished ==
    MissingDone =>
        /\ IsFile(site, Canonical(config, page_path))
        /\ site.files[Canonical(config, page_path)] = rendered[1]
        /\ ~IsFile(site, tmp_index)

\* C5: for every user page at <page_path>.md whose text does not contain the
\* placeholder, an empty text included, the markup is the user text, "\n\n",
\* the inline-frame block and the script block, with no style block.
C5_AppendsToEveryUserText ==
    (UserPage /\ ~Contains(found[1].content, Placeholder)) =>
        Markup = found[1].content \o <<Separator>> \o Block

\* C6: for every user content with exactly one occurrence of the placeholder,
\* the markup is that content with the occurrence replaced by the frame+script
\* block, every token before and after it unchanged.
C6_SingleOccurrenceReplaced ==
    (UserPage /\ Cardinality(Occurrences(found[1].content, Placeholder)) = 1) =>
        LET s == found[1].content
            i == CHOOSE k \in Occurrences(s, Placeholder) : TRUE
        IN  Markup = SubSeq(s, 1, i - 1) \o Block
                     \o SubSeq(s, i + Len(Placeholder), Len(s))

\* a user page with text before and after its one placeholder
C6_Witness ==
    /\ UserPage
    /\ Len(found[1].content) = 4
    /\ Occurrences(found[1].content, Placeholder) = {2}

\* C7 as stated: with two or more occurrences of the placeholder only the
\* first is replaced, the later ones stay as literal text, and the markup
\* holds exactly one inline frame.
C7_OnlyFirstReplaced ==
    (UserPage /\ Cardinality(Occurrences(found[1].content, Placeholder)) >= 2) =>
        LET s == found[1].content
            occ == Occurrences(s, Placeholder)
            i == CHOOSE k \in occ : \A j \in occ : k <= j
        IN  /\ Markup = SubSeq(s, 1, i - 1) \o Block
                        \o SubSeq(s, i + Len(Placeholder), Len(s))
            /\ Frames(Markup) = 1

\* C7 amended: with two or more occurrences of the placeholder that do not
\* overlap, every occurrence is replaced by the frame+script block: none stays
\* as literal text and the markup holds as many inline frames as there were
\* occurrences.
C7_EveryOccurrenceReplaced ==
    LET occ == IF UserPage THEN Occurrences(found[1].content, Placeholder) ELSE {}
    IN  (Cardinality(occ) >= 2 /\ NonOverlapping(occ, Len(Placeholder))) =>
            /\ Frames(Markup) = Cardinality(occ)
            /\ Occurrences(Markup, Placeholder) = {}
            /\ Len(Markup) = Len(found[1].content)
                             + Cardinality(occ) * (Len(Block) - Len(Placeholder))

\* a user page holding the placeholder twice
C7_Witness ==
    /\ UserPage
    /\ Occurrences(found[1].content, Placeholder) = {1, 3}
    /\ Frames(Markup) = 2

\* on_files took the placeholder or the append branch: a user page with text
HasUserContent == UserPage /\ found[1].content # <<>>

\* on_files took the generated-page branch: no user page, or one without text
NoUserContent == NoUserPage \/ (UserPage /\ found[1].content = <<>>)

\* C8: where user content exists (placeholder or append branch) the style
\* block is in the markup iff hide_page_title is explicitly true; where
\* hide_page_title is unset the style block is in the markup iff no user
\* content exists.
C8_StyleFollowsHideFlag ==
    /\ HasUserContent =>
           (HasStyle(Markup) <=> config.hide_page_title = Some(TRUE))
    /\ (config.hide_page_title = None /\ (HasUserContent \/ NoUserContent)) =>
           (HasStyle(Markup) <=> NoUserContent)

\* C9: with no user page at <page_path>.md the markup is exactly the style
\* block, the inline-frame block and the script block, in that order.
C9_GeneratedPage ==
    NoUserPage => Markup = <<StyleBlock>> \o Block

\* on_files ran on a collection without a user page, under an explicit hide_page_title
C9_Witness ==
    /\ NoUserPage
    /\ config.hide_page_title = Some(FALSE)
    /\ ~config.use_directory_urls

\* the entries of a collection that are not at uri
Others(fs, uri) ==
    LET Other(e) == e.src_uri # uri
    IN  SelectSeq(fs, Other)

\* C10: after any number of on_files calls the collection holds exactly one
\* entry at <page_path>.md, it is the generated entry of the latest call, it is
\* the last entry, and every other entry is as it was.
C10_OneGeneratedEntryLast ==
    calls >= 1 =>
        LET uri == AddExt(page_path, ".md")
        IN  /\ Cardinality({i \in 1..Len(files) : files[i].src_uri = uri}) = 1
            /\ files[Len(files)].src_uri = uri
            /\ files[Len(files)].generated
            /\ files[Len(files)].content =
                   _build_coverage_page(
                       config, Block[2],
                       IF found = None THEN None ELSE Some(found[1].content))
            /\ Others(files, uri) = Others(before, uri)
            /\ Len(Others(files, uri)) = Len(files) - 1

\* a second call on a collection that began with a user page as its first entry
C10_Witness ==
    /\ calls = 2
    /\ found # None
    /\ found[1].generated
    /\ Len(before) = 3
    /\ Len(files) = 3

\* C11: on_post_build never changes html_report_dir: whether it ends in
\* success, in the missing-report warning or in a raised error, no step adds,
\* removes, renames or rewrites a file of the report; the rename and the href
\* rewrite act on the copy under coverage_dir.
C11_ReportNeverMutated == [][report' = report]_vars

\* a finished merge that renamed and rewrote the copy of a root page while the
\* report still holds that page as index.html with its link
C11_Witness ==
    /\ Success
    /\ <<IndexHtml>> \in DOMAIN report.files
    /\ <<CovindexHtml>> \notin DOMAIN report.files
    /\ Occurrences(report.files[<<IndexHtml>>], <<H, I, Q>>) # {}
    /\ Occurrences(site.files[coverage_dir \o <<CovindexHtml>>], <<H, I, Q>>) = {}

\* the rendered synthesized page is the file at p
PageAt(p) == rendered # None /\ IsFile(site, p) /\ site.files[p] = rendered[1]

\* C12: from the start of on_post_build on, the rendered synthesized page is,
\* with unchanged content, at exactly one of the holding path and its canonical
\* slot; the holding path lies outside coverage_dir; the page is at the holding
\* path while coverage_dir is removed, the report copied and its index.html
\* renamed, and it is back at the canonical slot only once covindex.html exists.
C12_PageHeldThroughMerge ==
    (rendered # None) =>
        /\ PageAt(tmp_index) # PageAt(Canonical(config, page_path))
        /\ ~IsPrefix(coverage_dir, tmp_index)
        /\ (pc \in {"rmtree", "copytree", "rename", "move_back"}
               => PageAt(tmp_index))
        /\ (pc \in {"iterdir", "rewrite"} => PageAt(Canonical(config, page_path)))
        /\ ((PageAt(Canonical(config, page_path)) /\ pc # "move_out")
               => /\ pc \in {"iterdir", "rewrite", "done"}
                  /\ IsFile(site, coverage_dir \o <<CovindexHtml>>))

\* the copied report's own index.html sits in the canonical slot of a
\* directory-URL build while the page waits at the holding path
C12_Witness ==
    /\ pc = "rename"
    /\ config.use_directory_urls
    /\ IsFile(site, Canonical(config, page_path))
    /\ site.files[Canonical(config, page_path)] = report.files[<<IndexHtml>>]
    /\ PageAt(tmp_index)
    /\ Under(coverage_dir) # {}

\* the src attributes of the inline frames of a text
FrameSrcs(s) == {s[i + 1] : i \in {k \in 1..(Len(s) - 1) : s[k] = IframeOpen}}

\* the relative path a src string spells: the inverse of PathStr on the paths
\* that end a path under coverage_dir
ParseRel(str) ==
    LET full == coverage_dir \o <<CovindexHtml>>
    IN  CHOOSE r \in {SubSeq(full, k, Len(full)) : k \in 1..Len(full)} :
            PathStr(r) = str

\* a relative URL resolved against the location of the page that holds it
Resolve(page, rel) == Front(page) \o rel

\* C13: the inline-frame src on_files computes, resolved against the canonical
\* output location of the synthesized page, is site_dir/page_path/covindex.html,
\* the file where a successful on_post_build puts the renamed report root, in
\* both URL styles and for every page_path.
C13_FrameSrcDenotesCovindex ==
    calls >= 1 =>
        /\ FrameSrcs(Markup) # {}
        /\ \A src \in FrameSrcs(Markup) :
               Resolve(Canonical(config, page_path), ParseRel(src))
                   = coverage_dir \o <<CovindexHtml>>
        /\ Success =>
               \A src \in FrameSrcs(Markup) :
                   IsFile(site, Resolve(Canonical(config, page_path), ParseRel(src)))

\* C14: on_post_build swallows nothing but the missing report directory.  With
\* the rendered page missing from its canonical slot, the error of the first
\* move reaches the caller and the site tree is as on_post_build found it, with
\* coverage_dir not removed; with a report directory that has no root
\* index.html, the error of the rename reaches the caller and nothing is logged;
\* a warning is logged only for a report directory that does not exist, and a
\* return without a warning means every step was done.
C14_OnlyMissingReportSwallowed ==
    pc = "done" =>
        /\ (warnings > 0 => (~report.exists /\ warnings = 1 /\ outcome = "returned"))
        /\ (rendered = None =>
               /\ outcome = "FileNotFoundError"
               /\ warnings = 0
               /\ site = site_before)
        /\ ((rendered # None /\ report.exists
                /\ <<IndexHtml>> \notin DOMAIN report.files) =>
               /\ outcome = "FileNotFoundError"
               /\ warnings = 0)
        /\ ((outcome = "returned" /\ warnings = 0) =>
               /\ PageAt(Canonical(config, page_path))
               /\ IsFile(site, coverage_dir \o <<CovindexHtml>>))

\* on_post_build raised for want of the rendered page and left the files of an
\* earlier build under coverage_dir
C14_Witness ==
    /\ pc = "done"
    /\ rendered = None
    /\ outcome = "FileNotFoundError"
    /\ Under(coverage_dir) # {}
    /\ ~report.exists

\* on_post_build raised at the rename, the report having no root index.html
C14_RenameRaised ==
    /\ pc = "done"
    /\ rendered # None
    /\ report.exists
    /\ <<IndexHtml>> \notin DOMAIN report.files
    /\ outcome = "FileNotFoundError"

\* the name a file of the report has under coverage_dir after the merge
MergedName(r) == IF r = <<IndexHtml>> THEN <<CovindexHtml>> ELSE r

\* the files of the site as on_post_build found it, in directory d or below it
UnderBefore(d) == {p \in DOMAIN site_before.files : IsPrefix(d, p)}

\* p is neither under coverage_dir nor the canonical slot nor the holding path
Outside(p) ==
    /\ ~IsPrefix(coverage_dir, p)
    /\ p # Canonical(config, page_path)
    /\ p # tmp_index

\* C15: after a successful merge coverage_dir holds exactly the report's files,
\* the root index.html under the name covindex.html, and in directory-URL style
\* the synthesized index.html besides; nothing that was under coverage_dir
\* before survives; every non-html file and every file of a subdirectory is
\* identical to its source; and outside coverage_dir, the canonical slot and the
\* holding path no file or directory is created, removed or changed.
C15_ExactlyTheReport ==
    Success =>
        /\ Under(coverage_dir) =
               {coverage_dir \o MergedName(r) : r \in DOMAIN report.files}
               \cup (IF config.use_directory_urls
                     THEN {coverage_dir \o <<IndexHtml>>} ELSE {})
        /\ (config.use_directory_urls => PageAt(coverage_dir \o <<IndexHtml>>))
        /\ \A r \in DOMAIN report.files :
               (Last(r).suffix # ".html" \/ Len(r) > 1) =>
                   site.files[coverage_dir \o r] = report.files[r]
        /\ \A p \in UnderBefore(coverage_dir) \cap Under(coverage_dir) :
               \/ p = Canonical(config, page_path)
               \/ \E r \in DOMAIN report.files :
                      /\ p = coverage_dir \o MergedName(r)
                      /\ site.files[p] \in {report.files[r], Relinked(report.files[r])}
        /\ \A p \in (DOMAIN site.files) \cup (DOMAIN site_before.files) :
               Outside(p) =>
                   /\ p \in (DOMAIN site.files) \cap (DOMAIN site_before.files)
                   /\ site.files[p] = site_before.files[p]
        /\ {d \in site.dirs : ~IsPrefix(coverage_dir, d)}
               = {d \in site_before.dirs : ~IsPrefix(coverage_dir, d)}

\* a successful directory-URL merge over the files of an earlier build, of a
\* report with a stylesheet and a subdirectory
C15_Witness ==
    /\ Success
    /\ config.use_directory_urls
    /\ coverage_dir \o <<N("old", ".html")>> \in UnderBefore(coverage_dir)
    /\ site_before.files[coverage_dir \o <<CovindexHtml>>] = <<"old report">>
    /\ <<StyleCss>> \in DOMAIN report.files
    /\ SubIndex \in DOMAIN report.files
    /\ <<IndexHtml>> \in DOMAIN site.files

\* the markup at <page_path>.md when the latest on_files call began
MarkupBefore == get_file_from_path(before, AddExt(page_path, ".md"))[1].content

\* how many script blocks a text holds
Scripts(s) == Cardinality({i \in 1..Len(s) : s[i] = ScriptBlock})

\* C16: a second on_files call on the same collection with the same
\* configuration leaves at <page_path>.md the markup the first call left: the
\* generated entry of the first call is not taken as user content, so no
\* further inline frame or script is added.
C16_SecondRunSameMarkup ==
    calls >= 2 =>
        /\ Markup = MarkupBefore
        /\ Frames(Markup) = Frames(MarkupBefore)
        /\ Scripts(Markup) = Scripts(MarkupBefore)

====
